---------------------------- MODULE Spec2Model ----------------------------
(***************************************************************************)
(* kafku: a terminal dashboard for a Kafka cluster.                        *)
(*                                                                         *)
(* The module models                                                       *)
(*   - config::get of src/src/config.rs and its use at main's start;       *)
(*   - main() of src/src/main.rs: the startup metadata refresh, the        *)
(*     background event thread (poll / read / send Input / send Tick),     *)
(*     the mpsc channel and the draw / recv / dispatch loop;               *)
(*   - SimpleKafkaClient of src/src/kafka_client.rs: list_topic_details    *)
(*     (the refresh) and create_consumer / start_consumer (the consumer    *)
(*     session) with parse_message.                                        *)
(*                                                                         *)
(* Indices are 0-based as in the Rust code; TLA+ sequences are 1-based, so *)
(* element i of a Vec is seq[i + 1].                                       *)
(* The console (crossterm poll/read, terminal.draw) and the user db file   *)
(* are taken to work: their expect()s never fire on an I/O error.  Broker  *)
(* calls can fail at every call.                                           *)
(***************************************************************************)
EXTENDS Integers, Sequences, FiniteSets, TLC

(* ------------------------------ bounds --------------------------------- *)
\* topics in the cluster: 0 .. MaxTopics
MaxTopics == 2
\* records in the user db file at startup: 0 .. MaxUsers
MaxUsers == 1
\* Spec: the clock stops advancing at MaxTime (ms)
MaxTime == 400
\* Spec: console events (keystrokes, resizes) the operator produces in a run
MaxKeys == 2
\* Spec: granularity of the clock (ms)
Quantum == 100
\* NavSpec: keystrokes the operator produces in a run
MaxNavKeys == 3
\* NavSpec: granularity of the clock (ms)
NavQuantum == 200
\* NavSpec: the clock stops advancing at NavMaxTime (ms)
NavMaxTime == 200

\* RefreshSpec: topics in the cluster: 0 .. MaxRefreshTopics
MaxRefreshTopics == 1
\* RefreshSpec: partitions of a topic: 0 .. MaxParts
MaxParts == 2

\* ConfigSpec: entries in the configuration file: 0 .. MaxEntries
MaxEntries == 2

\* ConsumerSpec: partitions of the consumed topic
NumParts == 1
\* ConsumerSpec: messages in a partition: 0 .. MaxMsgs
MaxMsgs == 2
\* ConsumerSpec: poll round trips counted in a session
MaxPolls == 2

(* ------------------------- program constants --------------------------- *)
\* let tick_rate = Duration::from_millis(200);
TickRate == 200

\* .unwrap_or("No Leader Available")
NoLeader == "No Leader Available"

\* the key codes main's match distinguishes; "other" is the `_ => {}` arm
KeyCodes == {"q", "h", "u", "t", "a", "d", "Down", "Up", "other"}

\* what event::read() can return: a key event, or a non-key event (a resize)
ConsoleEvents == KeyCodes \cup {"Resize"}

\* Spec, where the clock is fine: the operator's events are one of each kind
\* the event thread and the loop's control flow tell apart: the quit key, a
\* key that changes the tab (and makes draw panic on an empty catalog), a key
\* without effect, and an event that is no key.
TimingEvents == {"q", "t", "other", "Resize"}

\* NavSpec, where the clock is coarse: the operator presses any key.
NavEvents == KeyCodes

\* enum Event<I> { Input(I), Tick }
Input(key) == [kind |-> "Input", code |-> key]
Tick == [kind |-> "Tick"]

(* ------------------------ the broker's metadata ------------------------ *)
TopicName(i) == CASE i = 1 -> "orders" [] i = 2 -> "events" [] OTHER -> "audit"

\* Topic i of the cluster has i partitions, ids 0 .. i-1; the partitions with
\* an odd id have no leader.  The latest-offset query of a topic answers for
\* the partitions that have a leader only.
BrokerPartition(i, j) ==
    [id |-> j - 1,
     leader |-> IF (j - 1) % 2 = 0 THEN <<"b1">> ELSE <<>>,
     available |-> (j - 1) % 2 = 0]

BrokerTopic(i) ==
    [name |-> TopicName(i),
     partitions |-> [j \in 1..i |-> BrokerPartition(i, j)],
     offsets |-> [j \in 1..((i + 1) \div 2) |->
                    [partition |-> 2 * (j - 1), offset |-> 40 + i + j]]]

ClusterOf(n) == [i \in 1..n |-> BrokerTopic(i)]

\* RefreshSpec: the metadata and offset answers a broker can give for topic i.
\* The partitions are reported in id order, each with or without a leader
\* (is_available() is "has a leader"); the latest-offset answer holds one
\* entry for each of some of the partitions that have a leader, in any order.
PartitionLists ==
    UNION {{[j \in 1..n |-> [id |-> j - 1,
                             leader |-> IF j \in led THEN <<"b1">> ELSE <<>>,
                             available |-> j \in led]] : led \in SUBSET (1..n)}
           : n \in 0..MaxParts}

OffsetAnswers(i, partitions) ==
    LET led == {j \in 1..Len(partitions) : partitions[j].leader # <<>>} IN
    {[k \in 1..Len(order) |->
         [partition |-> partitions[order[k]].id, offset |-> 40 + 10 * i + partitions[order[k]].id]]
     : order \in {o \in UNION {[1..m -> led] : m \in 0..Cardinality(led)} :
                     \A a, b \in 1..Len(o) : a # b => o[a] # o[b]}}

BrokerTopics(i) ==
    UNION {{[name |-> TopicName(i), partitions |-> ps, offsets |-> os]
            : os \in OffsetAnswers(i, ps)} : ps \in PartitionLists}

RECURSIVE ClustersOfLen(_)
ClustersOfLen(n) ==
    IF n = 0 THEN {<<>>}
    ELSE LET topics == BrokerTopics(n) IN
         {Append(c, t) : c \in ClustersOfLen(n - 1), t \in topics}

\* the clusters of at most max topics
Clusters(max) == UNION {ClustersOfLen(n) : n \in 0..max}

(* ----------------------- list_topic_details ---------------------------- *)
\* mutant of FindOffset: the offsets are joined by position
FindOffsetByPosition(offsets, id) ==
    IF id + 1 <= Len(offsets) THEN <<offsets[id + 1]>> ELSE <<>>

RECURSIVE FindOffset(_, _)
\* offsets.iter().find(|o| o.partition == p.id()): <<o>> for the first match, <<>> for none
FindOffset(offsets, id) ==
    IF offsets = <<>> THEN <<>>
    ELSE IF Head(offsets).partition = id THEN <<Head(offsets)>>
    ELSE FindOffset(Tail(offsets), id)

\* mutant of MakePartition: the leader's host is dropped
MakePartitionNoHost(p, offsets) ==
    LET offset == FindOffset(offsets, p.id) IN
    [id |-> p.id,
     leader |-> NoLeader,
     available |-> p.available,
     offset |-> IF offset # <<>> THEN offset[1].offset ELSE 0]

\* Partition { id, leader, available, offset }
MakePartition(p, offsets) ==
    LET offset == FindOffset(offsets, p.id) IN
    [id |-> p.id,
     leader |-> IF p.leader # <<>> THEN p.leader[1] ELSE NoLeader,
     available |-> p.available,
     offset |-> IF offset # <<>> THEN offset[1].offset ELSE 0]

\* TopicData { name, partitions }
MakeTopicData(topic, offsets) ==
    [name |-> topic.name,
     partitions |-> [j \in 1..Len(topic.partitions) |->
                        MakePartition(topic.partitions[j], offsets)]]

\* the catalog a refresh that meets no failure returns
FullCatalog(c) == [i \in 1..Len(c) |-> MakeTopicData(c[i], c[i].offsets)]

VARIABLES
    args,               \* env::args(): <<program>> or <<program, name>>
    config_file,        \* ~/.kafka/.config, as config::get finds it
    kafka_hosts,        \* client.hosts (<<>> before the configuration is read)
    cluster,            \* the broker's topics (metadata and offset answers)
    main_pc,            \* position of main()
    panic_at,           \* which unwrap/expect of the main thread failed ("" for none)
    proc_alive,         \* the process has not exited
    built,              \* list_topic_details: the TopicData collected so far
    topic_k,            \* list_topic_details: index (1-based) of the topic being mapped
    meta_loads,         \* load_metadata_all calls made
    offset_queries,     \* fetch_topic_offsets calls made
    topic_list,         \* let topic_list = client.list_topic_details();
    refreshes,          \* history: calls of list_topic_details
    raw_mode,           \* console raw mode is enabled
    active_menu_item,   \* MenuItem
    user_list_state,    \* user_list_state.selected()
    topic_list_state,   \* topic_list_state.selected()
    db,                 \* number of records in ./data/db.json
    sched_pc,           \* position of the event thread
    last_tick,          \* let mut last_tick = Instant::now();
    timeout,            \* let timeout = ...
    poll_start,         \* the instant event::poll(timeout) was called
    zero_waits,         \* history: zero-timeout polls in a row since the last Tick sent (counted to 2)
    iter_events,        \* history: the kinds of the events sent in the thread's current iteration
    now,                \* the clock (ms)
    stdin,              \* console events not yet read
    keys_made,          \* console events produced so far
    chan,               \* the mpsc channel's queue
    rx_alive,           \* the Receiver exists
    last_event,         \* the event rx.recv() last returned to the loop
    dispatch_io,        \* history: the file I/O the dispatch of that event performed
    inflight,           \* history: the events sent and not yet received, in the order sent
    n_sent,             \* history: number of events tx.send delivered into the channel
    n_recv,             \* history: number of events rx.recv returned
    n_keys_read,        \* history: number of key events event::read() returned
    n_inputs_sent,      \* history: number of Input events delivered into the channel
    tick_times          \* history: the clock at each successful Tick send

dashVars == <<args, config_file, kafka_hosts, cluster, main_pc, panic_at, proc_alive,
              built, topic_k, meta_loads, offset_queries, topic_list, refreshes, raw_mode,
              active_menu_item, user_list_state, topic_list_state, db, sched_pc,
              last_tick, timeout, poll_start, zero_waits, iter_events, now, stdin,
              keys_made, chan,
              rx_alive, last_event, dispatch_io, inflight, n_sent, n_recv, n_keys_read,
              n_inputs_sent, tick_times>>

VARIABLES
    clog,               \* broker: the topic's partitions, each a sequence of payloads (bytes)
    committed,          \* broker: the group's committed offset per partition (-1: none)
    cons_pc,            \* position of the consumer session
    cons_panic,         \* which unwrap of the session failed ("" for none)
    fetch_pos,          \* Consumer: next offset to fetch, per partition
    consumed,           \* Consumer: offset after the last consumed message (-1: none marked)
    batch,              \* the message sets consumer.poll() returned
    ms_i,               \* index (1-based) of the message set being iterated
    msg_off,            \* offset of the next message of that message set
    delivered,          \* the strings the callback f was called with, in order
    polls,              \* poll round trips of the session
    commits,            \* commits of the session
    handed              \* history: per partition, the offset after the last message ever handed to f

consVars == <<clog, committed, cons_pc, cons_panic, fetch_pos, consumed, batch, ms_i,
              msg_off, delivered, polls, commits, handed>>

vars == <<dashVars, consVars>>

configVars == <<args, config_file, kafka_hosts>>
startupVars == <<built, topic_k, meta_loads, offset_queries, topic_list, refreshes>>
viewVars == <<active_menu_item, user_list_state, topic_list_state, db>>
schedVars == <<sched_pc, last_tick, timeout, poll_start, zero_waits, iter_events>>
chanVars == <<chan, inflight, n_sent, n_recv, n_keys_read, n_inputs_sent, tick_times>>
envVars == <<now, stdin, keys_made>>

(* ------------------------------- Init ---------------------------------- *)
\* No consumer session: main() opens none.
ConsIdle ==
    /\ clog = [p \in 1..NumParts |-> <<>>]
    /\ committed = [p \in 1..NumParts |-> -1]
    /\ cons_pc = "idle"
    /\ cons_panic = ""
    /\ fetch_pos = [p \in 1..NumParts |-> 0]
    /\ consumed = [p \in 1..NumParts |-> -1]
    /\ batch = <<>>
    /\ ms_i = 1
    /\ msg_off = 0
    /\ delivered = <<>>
    /\ polls = 0
    /\ commits = 0
    /\ handed = [p \in 1..NumParts |-> 0]

\* The state of main() and of its environment but for the configuration.
DashRest(clusters, dbs) ==
    /\ cluster \in clusters
    /\ db \in dbs
    /\ panic_at = ""
    /\ proc_alive = TRUE
    /\ built = <<>>
    /\ topic_k = 1
    /\ meta_loads = 0
    /\ offset_queries = 0
    /\ topic_list = <<>>
    /\ raw_mode = FALSE
    /\ active_menu_item = "Home"
    /\ user_list_state = 0
    /\ topic_list_state = 0
    /\ sched_pc = "unspawned"
    /\ last_tick = 0
    /\ timeout = 0
    /\ poll_start = 0
    /\ now = 0
    /\ stdin = <<>>
    /\ keys_made = 0
    /\ chan = <<>>
    /\ rx_alive = FALSE
    /\ last_event = [kind |-> "None"]
    /\ inflight = <<>>
    /\ n_sent = 0
    /\ n_recv = 0
    /\ n_keys_read = 0
    /\ n_inputs_sent = 0
    /\ tick_times = <<>>
    /\ refreshes = 0
    /\ zero_waits = 0
    /\ iter_events = <<>>
    /\ dispatch_io = "none"

\* The state when main() has read its configuration and built the client
\* (main.rs:74-82), before the startup refresh.
DashInit(clusters, dbs) ==
    /\ args = <<"kafku", "dev">>
    /\ config_file = [state |-> "ok", entries |-> <<[name |-> "dev", broker |-> "b1:9092"]>>]
    /\ kafka_hosts = <<"b1:9092">>
    /\ main_pc = "refresh"
    /\ DashRest(clusters, dbs)

Init == DashInit({ClusterOf(n) : n \in 0..MaxTopics}, 0..MaxUsers) /\ ConsIdle

(* ------------------------ startup: config::get ------------------------- *)
ConfigNames == {"dev", "prod"}

ConfigBrokers == {"b1:9092", "b2:9092"}

\* struct KafkaConfig { name, broker }
KafkaConfig == [name : ConfigNames, broker : ConfigBrokers]

\* What config::get finds: no home directory, a file that cannot be read, a
\* file that is no JSON list of KafkaConfig, or a list of entries.
ConfigFiles ==
    {[state |-> st, entries |-> <<>>] : st \in {"no home dir", "unreadable", "malformed"}}
    \cup {[state |-> "ok", entries |-> es]
          : es \in UNION {[1..n -> KafkaConfig] : n \in 0..MaxEntries}}

\* env::args(): the program's name, and the configuration's name if one was given
ArgLists == {<<"kafku">>} \cup {<<"kafku", name>> : name \in ConfigNames}

RECURSIVE FilterByName(_, _)
\* configs.iter().filter(|c| c.name == key).collect()
FilterByName(configs, key) ==
    IF configs = <<>> THEN <<>>
    ELSE (IF Head(configs).name = key THEN <<Head(configs)>> ELSE <<>>)
         \o FilterByName(Tail(configs), key)

\* mutant of Get: an entry that is not found is made up
GetOrDefault(file, key) ==
    CASE file.state = "no home dir" -> [panic |-> "", value |-> <<>>]
      [] file.state = "unreadable" ->
            [panic |-> "Something went wrong reading the file", value |-> <<>>]
      [] file.state = "malformed" ->
            [panic |-> "JSON was not well-formatted", value |-> <<>>]
      [] OTHER ->
            LET result == FilterByName(file.entries, key) IN
            [panic |-> "",
             value |-> IF Len(result) # 0 THEN <<result[1]>>
                       ELSE <<[name |-> key, broker |-> "b1:9092"]>>]

\* config.rs:28-49  config::get(key): panic is the expect() that failed (""
\* for none), value is <<entry>> for Some(entry) and <<>> for None
Get(file, key) ==
    CASE file.state = "no home dir" -> [panic |-> "", value |-> <<>>]
      [] file.state = "unreadable" ->
            [panic |-> "Something went wrong reading the file", value |-> <<>>]
      [] file.state = "malformed" ->
            [panic |-> "JSON was not well-formatted", value |-> <<>>]
      [] OTHER ->
            LET result == FilterByName(file.entries, key) IN
            [panic |-> "", value |-> IF Len(result) # 0 THEN <<result[1]>> ELSE <<>>]

\* main.rs:74-82  args[1], config::get(..).unwrap(), the client's hosts
ConfigGet ==
    /\ main_pc = "config"
    /\ IF Len(args) < 2
       THEN /\ main_pc' = "panicked"
            /\ panic_at' = "args: index out of bounds"
            /\ UNCHANGED kafka_hosts
       ELSE LET r == Get(config_file, args[2]) IN
            IF r.panic # ""
            THEN /\ main_pc' = "panicked"
                 /\ panic_at' = r.panic
                 /\ UNCHANGED kafka_hosts
            ELSE IF r.value = <<>>
            THEN /\ main_pc' = "panicked"
                 /\ panic_at' = "config: unwrap on None"
                 /\ UNCHANGED kafka_hosts
            ELSE /\ main_pc' = "refresh"
                 /\ kafka_hosts' = <<r.value[1].broker>>
                 /\ UNCHANGED panic_at
    /\ UNCHANGED <<args, config_file, cluster, proc_alive, startupVars, raw_mode,
                   viewVars, schedVars, chanVars, envVars, rx_alive, last_event, dispatch_io>>
    /\ UNCHANGED consVars

(* ------------------- startup: list_topic_details ----------------------- *)
\* mutant of OnBrokerError: the error is swallowed and what was collected is returned
OnBrokerErrorKeepPartial(partial, where) ==
    [main_pc |-> "setup", panic_at |-> "", topic_list |-> partial]

\* A broker call returned Err and the code unwrap()s it: the main thread
\* panics; list_topic_details returns nothing, whatever it had collected.
OnBrokerError(partial, where) ==
    [main_pc |-> "panicked", panic_at |-> where, topic_list |-> <<>>]

\* kafka_client.rs:53-54  client.load_metadata_all().unwrap()
RefreshLoadMetadata ==
    /\ main_pc = "refresh"
    /\ refreshes' = refreshes + 1
    /\ meta_loads' = meta_loads + 1
    /\ \/ /\ main_pc' = "map_topic"
          /\ UNCHANGED <<panic_at, topic_list>>
       \/ LET r == OnBrokerError(built, "load_metadata_all") IN
          /\ main_pc' = r.main_pc
          /\ panic_at' = r.panic_at
          /\ topic_list' = r.topic_list
    /\ UNCHANGED <<configVars, cluster, proc_alive, built, topic_k, offset_queries, raw_mode,
                   viewVars, schedVars, chanVars, envVars, rx_alive, last_event, dispatch_io>>
    /\ UNCHANGED consVars

\* kafka_client.rs:46-48  get_offsets: a fresh client loads the metadata again
GetOffsetsLoadMetadata ==
    /\ main_pc = "map_topic"
    /\ topic_k <= Len(cluster)
    /\ meta_loads' = meta_loads + 1
    /\ \/ /\ main_pc' = "fetch_offsets"
          /\ UNCHANGED <<panic_at, topic_list>>
       \/ LET r == OnBrokerError(built, "get_offsets: load_metadata_all") IN
          /\ main_pc' = r.main_pc
          /\ panic_at' = r.panic_at
          /\ topic_list' = r.topic_list
    /\ UNCHANGED <<configVars, cluster, proc_alive, built, topic_k, offset_queries, refreshes,
                   raw_mode,
                   viewVars, schedVars, chanVars, envVars, rx_alive, last_event, dispatch_io>>
    /\ UNCHANGED consVars

\* kafka_client.rs:49 and 59-80  fetch_topic_offsets(topic, Latest).unwrap(),
\* then the topic's partitions are mapped and its TopicData is collected
GetOffsetsFetch ==
    /\ main_pc = "fetch_offsets"
    /\ offset_queries' = offset_queries + 1
    /\ \/ /\ built' = Append(built, MakeTopicData(cluster[topic_k], cluster[topic_k].offsets))
          /\ topic_k' = topic_k + 1
          /\ main_pc' = "map_topic"
          /\ UNCHANGED <<panic_at, topic_list>>
       \/ LET r == OnBrokerError(built, "fetch_topic_offsets") IN
          /\ main_pc' = r.main_pc
          /\ panic_at' = r.panic_at
          /\ topic_list' = r.topic_list
          /\ UNCHANGED <<built, topic_k>>
    /\ UNCHANGED <<configVars, cluster, proc_alive, meta_loads, refreshes, raw_mode,
                   viewVars, schedVars, chanVars, envVars, rx_alive, last_event, dispatch_io>>
    /\ UNCHANGED consVars

\* kafka_client.rs:82 .collect() and main.rs:84  let topic_list = ...
RefreshReturn ==
    /\ main_pc = "map_topic"
    /\ topic_k > Len(cluster)
    /\ topic_list' = built
    /\ main_pc' = "setup"
    /\ UNCHANGED <<configVars, cluster, panic_at, proc_alive, built, topic_k, meta_loads,
                   offset_queries, refreshes, raw_mode, viewVars, schedVars, chanVars, envVars,
                   rx_alive, last_event, dispatch_io>>
    /\ UNCHANGED consVars

\* main.rs:86-121  raw mode, the channel, the event thread, the terminal and
\* the initial view state.  The clock is read from the thread's start on.
Setup ==
    /\ main_pc = "setup"
    /\ raw_mode' = TRUE
    /\ rx_alive' = TRUE
    /\ chan' = <<>>
    /\ sched_pc' = "top"
    /\ last_tick' = now
    /\ active_menu_item' = "Home"
    /\ user_list_state' = 0
    /\ topic_list_state' = 0
    /\ main_pc' = "draw"
    /\ UNCHANGED <<configVars, cluster, panic_at, proc_alive, startupVars, db, timeout,
                   poll_start, zero_waits, iter_events, envVars, last_event, dispatch_io,
                   inflight,
                   n_sent, n_recv, n_keys_read, n_inputs_sent, tick_times>>
    /\ UNCHANGED consVars

(* --------------------------- the environment --------------------------- *)
\* The clock advances by `step`, up to `max`.
ClockAdvance(step, max) ==
    /\ proc_alive
    /\ sched_pc # "unspawned"
    /\ now + step <= max
    /\ now' = now + step
    /\ UNCHANGED <<configVars, cluster, main_pc, panic_at, proc_alive, startupVars, raw_mode,
                   viewVars, schedVars, chanVars, stdin, keys_made, rx_alive, last_event, dispatch_io>>
    /\ UNCHANGED consVars

\* The operator presses a key (or resizes the window): the console queues it.
\* The event thread looks at the console's queue only inside event::poll and
\* event::read, so an event that arrives while the thread is elsewhere is the
\* same to the program as one that arrives as soon as the thread is in poll;
\* and poll and read see the front of the queue only, so an event that arrives
\* behind another is the same as one that arrives once the other was read.
ConsoleEvent(events, max) ==
    /\ proc_alive
    /\ sched_pc = "poll"
    /\ stdin = <<>>
    /\ keys_made < max
    /\ \E e \in events : stdin' = Append(stdin, e)
    /\ keys_made' = keys_made + 1
    /\ UNCHANGED <<configVars, cluster, main_pc, panic_at, proc_alive, startupVars, raw_mode,
                   viewVars, schedVars, chanVars, now, rx_alive, last_event, dispatch_io>>
    /\ UNCHANGED consVars

Tock == ClockAdvance(Quantum, MaxTime)

KeyPress == ConsoleEvent(TimingEvents, MaxKeys)

NavTock == ClockAdvance(NavQuantum, NavMaxTime)

NavKeyPress == ConsoleEvent(NavEvents, MaxNavKeys)

(* --------------------------- the mpsc channel -------------------------- *)
\* mutant of ChanSend: the event jumps the queue
ChanSendFront(q, e) == <<e>> \o q

\* tx.send(e): the event goes to the back of the queue
ChanSend(q, e) == Append(q, e)

\* rx.recv(): the event at the front of the queue
ChanFront(q) == Head(q)

ChanRest(q) == Tail(q)

(* ---------------------------- the event thread ------------------------- *)
\* tick_rate.checked_sub(last_tick.elapsed()).unwrap_or_else(|| Duration::from_secs(0))
CheckedSub(a, b) == IF a >= b THEN a - b ELSE 0

\* last_tick.elapsed() >= tick_rate
TickDue(last, t) == t - last >= TickRate

\* mutant of StampTick: the next tick is scheduled from the last due time
StampTickNoDrift(last, t) == last + TickRate

\* last_tick = Instant::now();
StampTick(last, t) == t

\* main.rs:93-95, and the call of event::poll(timeout) at :97
SchedTimeout ==
    /\ proc_alive
    /\ sched_pc = "top"
    /\ timeout' = CheckedSub(TickRate, now - last_tick)
    /\ poll_start' = now
    /\ zero_waits' = IF timeout' = 0 THEN (IF zero_waits < 2 THEN zero_waits + 1 ELSE 2) ELSE 0
    /\ iter_events' = <<>>
    /\ sched_pc' = "poll"
    /\ UNCHANGED <<configVars, cluster, main_pc, panic_at, proc_alive, startupVars, raw_mode,
                   viewVars, last_tick, chanVars, envVars, rx_alive, last_event, dispatch_io>>
    /\ UNCHANGED consVars

\* main.rs:97  event::poll(timeout) returns true: an event is available
SchedPollReady ==
    /\ proc_alive
    /\ sched_pc = "poll"
    /\ stdin # <<>>
    /\ sched_pc' = "read"
    /\ UNCHANGED <<configVars, cluster, main_pc, panic_at, proc_alive, startupVars, raw_mode,
                   viewVars, last_tick, timeout, poll_start, zero_waits, iter_events,
                   chanVars, envVars,
                   rx_alive, last_event, dispatch_io>>
    /\ UNCHANGED consVars

\* main.rs:97  event::poll(timeout) returns false: the timeout elapsed first
SchedPollTimeout ==
    /\ proc_alive
    /\ sched_pc = "poll"
    /\ stdin = <<>>
    /\ now - poll_start >= timeout
    /\ sched_pc' = "check"
    /\ UNCHANGED <<configVars, cluster, main_pc, panic_at, proc_alive, startupVars, raw_mode,
                   viewVars, last_tick, timeout, poll_start, zero_waits, iter_events,
                   chanVars, envVars,
                   rx_alive, last_event, dispatch_io>>
    /\ UNCHANGED consVars

\* mutant of IsKeyEvent: only the keys the loop has an arm for are forwarded
IsKeyEventKnown(e) == e \in KeyCodes \ {"other"}

\* main.rs:98  if let CEvent::Key(key) = event::read()
IsKeyEvent(e) == e \in KeyCodes

\* mutant of SchedRead: after a key the thread goes on to its next
\* iteration, the Tick is looked at only when no key was sent
SchedReadContinue ==
    /\ proc_alive
    /\ sched_pc = "read"
    /\ stdin' = Tail(stdin)
    /\ n_keys_read' = IF Head(stdin) \in KeyCodes THEN n_keys_read + 1 ELSE n_keys_read
    /\ \/ /\ IsKeyEvent(Head(stdin))
          /\ rx_alive
          /\ chan' = ChanSend(chan, Input(Head(stdin)))
          /\ inflight' = Append(inflight, Input(Head(stdin)))
          /\ n_sent' = n_sent + 1
          /\ n_inputs_sent' = n_inputs_sent + 1
          /\ iter_events' = Append(iter_events, "Input")
          /\ sched_pc' = "top"
       \/ /\ IsKeyEvent(Head(stdin))
          /\ ~rx_alive
          /\ sched_pc' = "panicked"
          /\ UNCHANGED <<chan, inflight, n_sent, n_inputs_sent, iter_events>>
       \/ /\ ~IsKeyEvent(Head(stdin))
          /\ sched_pc' = "check"
          /\ UNCHANGED <<chan, inflight, n_sent, n_inputs_sent, iter_events>>
    /\ UNCHANGED <<configVars, cluster, main_pc, panic_at, proc_alive, startupVars, raw_mode,
                   viewVars, last_tick, timeout, poll_start, zero_waits, n_recv, tick_times,
                   now, keys_made, rx_alive, last_event, dispatch_io>>
    /\ UNCHANGED consVars

\* main.rs:98-100  event::read(); a key is sent as Input(key), any other
\* event is discarded; send's expect panics the thread once the Receiver is gone
SchedRead ==
    /\ proc_alive
    /\ sched_pc = "read"
    /\ stdin' = Tail(stdin)
    /\ n_keys_read' = IF Head(stdin) \in KeyCodes THEN n_keys_read + 1 ELSE n_keys_read
    /\ \/ /\ IsKeyEvent(Head(stdin))
          /\ rx_alive
          /\ chan' = ChanSend(chan, Input(Head(stdin)))
          /\ inflight' = Append(inflight, Input(Head(stdin)))
          /\ n_sent' = n_sent + 1
          /\ n_inputs_sent' = n_inputs_sent + 1
          /\ iter_events' = Append(iter_events, "Input")
          /\ sched_pc' = "check"
       \/ /\ IsKeyEvent(Head(stdin))
          /\ ~rx_alive
          /\ sched_pc' = "panicked"
          /\ UNCHANGED <<chan, inflight, n_sent, n_inputs_sent, iter_events>>
       \/ /\ ~IsKeyEvent(Head(stdin))
          /\ sched_pc' = "check"
          /\ UNCHANGED <<chan, inflight, n_sent, n_inputs_sent, iter_events>>
    /\ UNCHANGED <<configVars, cluster, main_pc, panic_at, proc_alive, startupVars, raw_mode,
                   viewVars, last_tick, timeout, poll_start, zero_waits, n_recv, tick_times,
                   now, keys_made, rx_alive, last_event, dispatch_io>>
    /\ UNCHANGED consVars

\* main.rs:103  if last_tick.elapsed() >= tick_rate
SchedCheck ==
    /\ proc_alive
    /\ sched_pc = "check"
    /\ sched_pc' = IF TickDue(last_tick, now) THEN "send_tick" ELSE "top"
    /\ UNCHANGED <<configVars, cluster, main_pc, panic_at, proc_alive, startupVars, raw_mode,
                   viewVars, last_tick, timeout, poll_start, zero_waits, iter_events,
                   chanVars, envVars,
                   rx_alive, last_event, dispatch_io>>
    /\ UNCHANGED consVars

\* main.rs:104  if let Ok(_) = tx.send(Event::Tick)
SchedSendTick ==
    /\ proc_alive
    /\ sched_pc = "send_tick"
    /\ \/ /\ rx_alive
          /\ chan' = ChanSend(chan, Tick)
          /\ inflight' = Append(inflight, Tick)
          /\ n_sent' = n_sent + 1
          /\ tick_times' = Append(tick_times, now)
          /\ zero_waits' = 0
          /\ iter_events' = Append(iter_events, "Tick")
          /\ sched_pc' = "stamp"
       \/ /\ ~rx_alive
          /\ sched_pc' = "top"
          /\ UNCHANGED <<chan, inflight, n_sent, tick_times, zero_waits, iter_events>>
    /\ UNCHANGED <<configVars, cluster, main_pc, panic_at, proc_alive, startupVars, raw_mode,
                   viewVars, last_tick, timeout, poll_start, n_recv, n_keys_read,
                   n_inputs_sent, envVars, rx_alive, last_event, dispatch_io>>
    /\ UNCHANGED consVars

\* main.rs:105  last_tick = Instant::now();
SchedStamp ==
    /\ proc_alive
    /\ sched_pc = "stamp"
    /\ last_tick' = StampTick(last_tick, now)
    /\ sched_pc' = "top"
    /\ UNCHANGED <<configVars, cluster, main_pc, panic_at, proc_alive, startupVars, raw_mode,
                   viewVars, timeout, poll_start, zero_waits, iter_events, chanVars, envVars,
                   rx_alive,
                   last_event, dispatch_io>>
    /\ UNCHANGED consVars

(* ------------------------------ the main loop -------------------------- *)
\* Stands for usize::MAX (2^64 - 1), which is beyond TLC's integers: the value
\* of `0 - 1` in a build without overflow checks.  Only its being larger than
\* every list length is used.
USizeMax == 2147483647

\* amount - 1 on usize: a build with overflow checks panics on 0 - 1, a build
\* without them wraps.  <<v>> for a value, <<>> for the panic.
UsizeDec(amount) == IF amount > 0 THEN {<<amount - 1>>} ELSE {<<>>, <<USizeMax>>}

\* mutant of SelectDown: the selection stops at the last index
SelectDownClamp(selected, amount) ==
    {IF last = <<>> THEN <<>>
     ELSE IF selected >= last[1] THEN <<selected>> ELSE <<selected + 1>> :
        last \in UsizeDec(amount)}

\* main.rs:220-226 / 230-236: the new selection for Down, or <<>> for a panic
SelectDown(selected, amount) ==
    {IF last = <<>> THEN <<>>
     ELSE IF selected >= last[1] THEN <<0>> ELSE <<selected + 1>> :
        last \in UsizeDec(amount)}

\* main.rs:243-249 / 253-259: the new selection for Up, or <<>> for a panic
SelectUp(selected, amount) ==
    IF selected > 0 THEN {<<selected - 1>>} ELSE UsizeDec(amount)

\* topic_list.get(selected).expect("exists") / user_list.get(selected).expect("exists")
GetExists(len, selected) == selected < len

\* main.rs:174-198: what terminal.draw renders; FALSE when a lookup's expect fails
DrawSucceeds(menu, usel, tsel, ntopics, nusers) ==
    CASE menu = "Home" -> TRUE
      [] menu = "Topics" -> GetExists(ntopics, tsel)
      [] menu = "Users" -> GetExists(nusers, usel)

\* mutant of MainDraw: the catalog is fetched again for every frame
MainDrawReload ==
    /\ proc_alive
    /\ main_pc = "draw"
    /\ refreshes' = refreshes + 1
    /\ topic_list' = FullCatalog(cluster)
    /\ IF DrawSucceeds(active_menu_item, user_list_state, topic_list_state,
                       Len(topic_list), db)
       THEN /\ main_pc' = "recv"
            /\ UNCHANGED panic_at
       ELSE /\ main_pc' = "panicked"
            /\ panic_at' = "exists"
    /\ UNCHANGED <<configVars, cluster, proc_alive, built, topic_k, meta_loads,
                   offset_queries, raw_mode, viewVars, schedVars, chanVars, envVars,
                   rx_alive, last_event, dispatch_io>>
    /\ UNCHANGED consVars

\* main.rs:124-200  terminal.draw(...)
MainDraw ==
    /\ proc_alive
    /\ main_pc = "draw"
    /\ IF DrawSucceeds(active_menu_item, user_list_state, topic_list_state,
                       Len(topic_list), db)
       THEN /\ main_pc' = "recv"
            /\ UNCHANGED panic_at
       ELSE /\ main_pc' = "panicked"
            /\ panic_at' = "exists"
    /\ UNCHANGED <<configVars, cluster, proc_alive, startupVars, raw_mode, viewVars, schedVars,
                   chanVars, envVars, rx_alive, last_event, dispatch_io>>
    /\ UNCHANGED consVars

View(menu, usel, tsel, d) == [menu |-> menu, usel |-> usel, tsel |-> tsel, db |-> d]

\* the outcome of a dispatch: where main goes on, the view state, whether raw
\* mode stays enabled, and the file I/O performed
Continue(v) == [next |-> "draw", panic_at |-> "", view |-> v, raw |-> TRUE, io |-> "none"]

Panic(v, where) ==
    [next |-> "panicked", panic_at |-> where, view |-> v, raw |-> TRUE, io |-> "none"]

\* the dispatch read ./data/db.json (read_db), or read and wrote it
WithIO(o, io) == [o EXCEPT !.io = io]

\* main.rs:542-555  remove_user_at_index: Vec::remove panics on an index out of range
RemoveUserAtIndex(v) ==
    IF v.usel >= v.db
    THEN WithIO(Panic(v, "Vec::remove"), "read_db")
    ELSE WithIO(Continue([v EXCEPT !.db = v.db - 1,
                                   !.usel = IF v.usel > 0 THEN v.usel - 1 ELSE 0]),
                "read_write_db")

\* main.rs:218-240  KeyCode::Down; on the Users tab the list's length is
\* read_db().len()
KeyDown(v, ntopics) ==
    CASE v.menu = "Users" ->
            {WithIO(IF sel = <<>> THEN Panic(v, "subtract with overflow")
                    ELSE Continue([v EXCEPT !.usel = sel[1]]), "read_db")
             : sel \in SelectDown(v.usel, v.db)}
      [] v.menu = "Topics" ->
            {IF sel = <<>> THEN Panic(v, "subtract with overflow")
             ELSE Continue([v EXCEPT !.tsel = sel[1]]) : sel \in SelectDown(v.tsel, ntopics)}
      [] OTHER -> {Continue(v)}

\* mutant of KeyUp: the match on the active tab is missing, the topic
\* selection moves on every tab
KeyUpAnyTab(v, ntopics) ==
    {IF sel = <<>> THEN Panic(v, "subtract with overflow")
     ELSE Continue([v EXCEPT !.tsel = sel[1]]) : sel \in SelectUp(v.tsel, ntopics)}

\* main.rs:241-263  KeyCode::Up; on the Users tab the list's length is
\* read_db().len()
KeyUp(v, ntopics) ==
    CASE v.menu = "Users" ->
            {WithIO(IF sel = <<>> THEN Panic(v, "subtract with overflow")
                    ELSE Continue([v EXCEPT !.usel = sel[1]]), "read_db")
             : sel \in SelectUp(v.usel, v.db)}
      [] v.menu = "Topics" ->
            {IF sel = <<>> THEN Panic(v, "subtract with overflow")
             ELSE Continue([v EXCEPT !.tsel = sel[1]]) : sel \in SelectUp(v.tsel, ntopics)}
      [] OTHER -> {Continue(v)}

\* mutant of OnTick: a Tick brings the dashboard back to the Home tab
OnTickHome(v) == Continue([v EXCEPT !.menu = "Home"])

\* main.rs:266  Event::Tick => {}
OnTick(v) == Continue(v)

\* mutant of Quit: the `break` is missing
QuitNoBreak(v) == [Continue(v) EXCEPT !.raw = FALSE]

\* main.rs:204-208  disable_raw_mode()?; terminal.show_cursor()?; break;
Quit(v) == [next |-> "done", panic_at |-> "", view |-> v, raw |-> FALSE, io |-> "none"]

\* main.rs:202-267  match rx.recv()? { ... }: the outcomes of dispatching event e
Dispatch(e, v, ntopics) ==
    IF e.kind = "Tick" THEN {OnTick(v)}
    ELSE CASE e.code = "q" -> {Quit(v)}
           [] e.code = "h" -> {Continue([v EXCEPT !.menu = "Home"])}
           [] e.code = "u" -> {Continue([v EXCEPT !.menu = "Users"])}
           [] e.code = "t" -> {Continue([v EXCEPT !.menu = "Topics"])}
           [] e.code = "a" -> {WithIO(Continue([v EXCEPT !.db = v.db + 1]), "read_write_db")}
           [] e.code = "d" -> {RemoveUserAtIndex(v)}
           [] e.code = "Down" -> KeyDown(v, ntopics)
           [] e.code = "Up" -> KeyUp(v, ntopics)
           [] OTHER -> {Continue(v)}

\* main.rs:202-267  rx.recv() blocks until an event is queued; the event is
\* dispatched.  (recv's Err needs the Sender gone, and the event thread ends
\* only after the Receiver is gone.)
MainRecv ==
    /\ proc_alive
    /\ main_pc = "recv"
    /\ chan # <<>>
    /\ chan' = ChanRest(chan)
    /\ last_event' = ChanFront(chan)
    /\ inflight' = Tail(inflight)
    /\ n_recv' = n_recv + 1
    /\ \E o \in Dispatch(ChanFront(chan),
                         View(active_menu_item, user_list_state, topic_list_state, db),
                         Len(topic_list)) :
          /\ main_pc' = o.next
          /\ panic_at' = o.panic_at
          /\ raw_mode' = (raw_mode /\ o.raw)
          /\ active_menu_item' = o.view.menu
          /\ user_list_state' = o.view.usel
          /\ topic_list_state' = o.view.tsel
          /\ db' = o.view.db
          /\ dispatch_io' = o.io
    /\ UNCHANGED <<configVars, cluster, proc_alive, startupVars, schedVars, n_sent, n_keys_read,
                   n_inputs_sent, tick_times, envVars, rx_alive>>
    /\ UNCHANGED consVars

\* main() is left, by `break` and Ok(()) (main.rs:207, 270) or by a panic's
\* unwinding: its locals are dropped, the Receiver and what it queued with them.
MainReturn ==
    /\ proc_alive
    /\ main_pc \in {"done", "panicked"}
    /\ rx_alive
    /\ rx_alive' = FALSE
    /\ chan' = <<>>
    /\ UNCHANGED <<configVars, cluster, main_pc, panic_at, proc_alive, startupVars, raw_mode,
                   viewVars, schedVars, last_event, dispatch_io, inflight, n_sent, n_recv,
                   n_keys_read, n_inputs_sent, tick_times, envVars>>
    /\ UNCHANGED consVars

\* The process exits when the main thread has ended; the event thread ends with it.
ProcessExit ==
    /\ proc_alive
    /\ main_pc \in {"done", "panicked"}
    /\ ~rx_alive
    /\ proc_alive' = FALSE
    /\ UNCHANGED <<configVars, cluster, main_pc, panic_at, startupVars, raw_mode, viewVars,
                   schedVars, chanVars, envVars, rx_alive, last_event, dispatch_io>>
    /\ UNCHANGED consVars

(* ------------------- parse_message: str::from_utf8 --------------------- *)
\* The payloads of the modelled topic: "A", "e-acute" (a two-byte sequence) and
\* a two-byte lead followed by a byte that is no continuation byte.
Payloads == {<<65>>, <<195, 169>>, <<195, 65>>}

IsContinuation(b) == b >= 128 /\ b <= 191

RECURSIVE Utf8Decode(_)
\* str::from_utf8 on one- and two-byte sequences (the payloads hold no lead
\* byte of a longer one): <<chars>> for Ok, <<>> for Err.
Utf8Decode(bytes) ==
    IF bytes = <<>> THEN <<(<<>>)>>
    ELSE IF bytes[1] <= 127
         THEN LET rest == Utf8Decode(Tail(bytes)) IN
              IF rest = <<>> THEN <<>> ELSE <<(<<bytes[1]>> \o rest[1])>>
    ELSE IF bytes[1] >= 194 /\ bytes[1] <= 223 /\ Len(bytes) >= 2 /\ IsContinuation(bytes[2])
         THEN LET rest == Utf8Decode(Tail(Tail(bytes))) IN
              IF rest = <<>> THEN <<>>
              ELSE <<(<<(bytes[1] - 192) * 64 + (bytes[2] - 128)>> \o rest[1])>>
    ELSE <<>>

\* kafka_client.rs:129-131  str::from_utf8(&message_bytes).unwrap().to_owned():
\* <<string>>, or <<>> for the unwrap's panic
ParseMessage(message_bytes) == Utf8Decode(message_bytes)

(* ------------------ create_consumer / start_consumer ------------------- *)
Parts == 1..NumParts

\* the logs a partition can hold
RECURSIVE LogsOfLen(_)
LogsOfLen(n) ==
    IF n = 0 THEN {<<>>}
    ELSE {Append(l, m) : l \in LogsOfLen(n - 1), m \in Payloads}

PartitionLogs == UNION {LogsOfLen(n) : n \in 0..MaxMsgs}

\* The broker holds the topic's messages; the group has committed nothing.
ConsInit ==
    /\ clog \in [Parts -> PartitionLogs]
    /\ committed = [p \in Parts |-> -1]
    /\ cons_pc = "idle"
    /\ cons_panic = ""
    /\ fetch_pos = [p \in Parts |-> 0]
    /\ consumed = [p \in Parts |-> -1]
    /\ batch = <<>>
    /\ ms_i = 1
    /\ msg_off = 0
    /\ delivered = <<>>
    /\ polls = 0
    /\ commits = 0
    /\ handed = [p \in Parts |-> 0]

\* mutant of StartOffset: the group's committed offset is ignored
StartOffsetEarliest(cm) == 0

\* .with_fallback_offset(FetchOffset::Earliest): the offset a session starts
\* at for a partition whose committed offset is cm (-1: the group has none)
StartOffset(cm) == IF cm = -1 THEN 0 ELSE cm

\* mutant of MarkConsumed: one offset too far
MarkConsumedSkip(ms) == ms.last + 2

\* consume_messageset(ms): the offset after the set's last message
MarkConsumed(ms) == ms.last + 1

\* commit_consumed(): the group's offsets once the marked ones are committed
CommitConsumed(cm, cons) == [p \in Parts |-> IF cons[p] = -1 THEN cm[p] ELSE cons[p]]

RECURSIVE MessageSets(_, _, _)
\* the message sets of a fetch that returns take[p] messages of partition p
\* from offset pos[p] on, in partition order, none for an empty take
MessageSets(p, pos, take) ==
    IF p > NumParts THEN <<>>
    ELSE (IF take[p] = 0 THEN <<>>
          ELSE <<[partition |-> p, first |-> pos[p], last |-> pos[p] + take[p] - 1]>>)
         \o MessageSets(p + 1, pos, take)

ConsPanics(where) ==
    /\ cons_pc' = "panicked"
    /\ cons_panic' = where

\* kafka_client.rs:85-96  create_consumer: a process opens a session of the
\* group (the first, or one after the last ended in a panic or a crash)
CreateConsumer ==
    /\ cons_pc \in {"idle", "panicked", "crashed"}
    /\ \/ /\ cons_pc' = "poll"
          /\ cons_panic' = ""
          /\ fetch_pos' = [p \in Parts |-> StartOffset(committed[p])]
       \/ /\ ConsPanics("create")
          /\ fetch_pos' = [p \in Parts |-> 0]
    /\ consumed' = [p \in Parts |-> -1]
    /\ batch' = <<>>
    /\ ms_i' = 1
    /\ msg_off' = 0
    /\ delivered' = <<>>
    /\ polls' = 0
    /\ commits' = 0
    /\ UNCHANGED <<clog, committed, handed>>
    /\ UNCHANGED dashVars

\* kafka_client.rs:100  consumer.poll().unwrap(): one fetch; of each partition
\* it returns some of the messages from the fetch position on
ConsPoll ==
    /\ cons_pc = "poll"
    /\ polls < MaxPolls
    /\ polls' = polls + 1
    /\ \/ \E take \in [Parts -> 0..MaxMsgs] :
             /\ \A p \in Parts : fetch_pos[p] + take[p] <= Len(clog[p])
             /\ batch' = MessageSets(1, fetch_pos, take)
             /\ fetch_pos' = [p \in Parts |-> fetch_pos[p] + take[p]]
             /\ ms_i' = 1
             /\ msg_off' = IF batch' = <<>> THEN 0 ELSE batch'[1].first
             /\ cons_pc' = "messages"
             /\ UNCHANGED cons_panic
       \/ /\ ConsPanics("poll")
          /\ UNCHANGED <<batch, fetch_pos, ms_i, msg_off>>
    /\ UNCHANGED <<clog, committed, consumed, delivered, commits, handed>>
    /\ UNCHANGED dashVars

\* kafka_client.rs:101-104  let message = parse_message(m.value); f(message)
ConsMessage ==
    /\ cons_pc = "messages"
    /\ ms_i <= Len(batch)
    /\ msg_off <= batch[ms_i].last
    /\ LET message == ParseMessage(clog[batch[ms_i].partition][msg_off + 1]) IN
       IF message = <<>>
       THEN /\ ConsPanics("from_utf8")
            /\ UNCHANGED <<delivered, handed, msg_off>>
       ELSE /\ delivered' = Append(delivered, message[1])
            /\ handed' = [handed EXCEPT ![batch[ms_i].partition] =
                             IF msg_off + 1 > @ THEN msg_off + 1 ELSE @]
            /\ msg_off' = msg_off + 1
            /\ UNCHANGED <<cons_pc, cons_panic>>
    /\ UNCHANGED <<clog, committed, fetch_pos, consumed, batch, ms_i, polls, commits>>
    /\ UNCHANGED dashVars

\* kafka_client.rs:105  consumer.consume_messageset(ms).unwrap(), after the
\* set's messages
ConsConsumeMessageset ==
    /\ cons_pc = "messages"
    /\ ms_i <= Len(batch)
    /\ msg_off > batch[ms_i].last
    /\ consumed' = [consumed EXCEPT ![batch[ms_i].partition] = MarkConsumed(batch[ms_i])]
    /\ ms_i' = ms_i + 1
    /\ msg_off' = IF ms_i + 1 <= Len(batch) THEN batch[ms_i + 1].first ELSE 0
    /\ UNCHANGED <<clog, committed, cons_pc, cons_panic, fetch_pos, batch, delivered,
                   polls, commits, handed>>
    /\ UNCHANGED dashVars

\* kafka_client.rs:107-108  consumer.commit_consumed().unwrap(), after the
\* last message set; then `loop` polls again
ConsCommit ==
    /\ cons_pc = "messages"
    /\ ms_i > Len(batch)
    /\ \/ /\ committed' = CommitConsumed(committed, consumed)
          /\ consumed' = [p \in Parts |-> -1]
          /\ commits' = commits + 1
          /\ cons_pc' = "poll"
          /\ UNCHANGED cons_panic
       \/ /\ ConsPanics("commit")
          /\ UNCHANGED <<committed, consumed, commits>>
    /\ UNCHANGED <<clog, fetch_pos, batch, ms_i, msg_off, delivered, polls, handed>>
    /\ UNCHANGED dashVars

\* The process is killed while the session runs: what it held in memory is
\* gone, what the broker holds stays.
ConsCrash ==
    /\ cons_pc \in {"poll", "messages"}
    /\ cons_pc' = "crashed"
    /\ fetch_pos' = [p \in Parts |-> 0]
    /\ consumed' = [p \in Parts |-> -1]
    /\ batch' = <<>>
    /\ ms_i' = 1
    /\ msg_off' = 0
    /\ delivered' = <<>>
    /\ polls' = 0
    /\ commits' = 0
    /\ UNCHANGED <<clog, committed, cons_panic, handed>>
    /\ UNCHANGED dashVars

(* ----------------------------- specification --------------------------- *)
Startup == RefreshLoadMetadata \/ GetOffsetsLoadMetadata \/ GetOffsetsFetch
              \/ RefreshReturn \/ Setup

Scheduler == SchedTimeout \/ SchedPollReady \/ SchedPollTimeout \/ SchedRead
                \/ SchedCheck \/ SchedSendTick \/ SchedStamp

MainLoop == MainDraw \/ MainRecv \/ MainReturn \/ ProcessExit

Next == Startup \/ Scheduler \/ MainLoop \/ Tock \/ KeyPress

\* the fine clock, few console events
Spec == Init /\ [][Next]_vars

NavNext == Startup \/ Scheduler \/ MainLoop \/ NavTock \/ NavKeyPress

\* the coarse clock, more keystrokes
NavSpec == Init /\ [][NavNext]_vars

ConsumerInit == DashInit({ClusterOf(1)}, {0}) /\ ConsInit

ConsumerNext == CreateConsumer \/ ConsPoll \/ ConsMessage \/ ConsConsumeMessageset
                   \/ ConsCommit \/ ConsCrash

\* sessions of the consumer group on one topic
ConsumerSpec == ConsumerInit /\ [][ConsumerNext]_vars

\* main() at its first statement, with any arguments and configuration file
ConfigInit ==
    /\ args \in ArgLists
    /\ config_file \in ConfigFiles
    /\ kafka_hosts = <<>>
    /\ main_pc = "config"
    /\ DashRest({ClusterOf(1)}, {0})
    /\ ConsIdle

ConfigNext == ConfigGet \/ Startup \/ ProcessExit

\* the startup from main's first statement to the start of the loop
ConfigSpec == ConfigInit /\ [][ConfigNext]_vars

RefreshInit == DashInit(Clusters(MaxRefreshTopics), {0}) /\ ConsIdle

\* the startup refresh against any broker answer
RefreshSpec == RefreshInit /\ [][Startup]_vars

\* the main thread runs: a draw ends, and a recv returns once an event is queued
FairSpec == Spec /\ WF_vars(MainDraw) /\ WF_vars(MainRecv)

\* the event thread runs: a step it can take, it takes
SchedFairSpec == Spec /\ WF_vars(Scheduler)

(* ------------------------------- claims -------------------------------- *)
\* the events a run of Spec can send
MaxEvents == MaxKeys + (MaxTime \div TickRate) + 1

\* C1: the loop receives the events in the order the event thread sent them:
\* while the Receiver exists the channel holds exactly the events sent and not
\* yet received, in the order sent (none missing, none merged), and every
\* recv returns the oldest of them.
C1_OrderedDelivery ==
    /\ [](rx_alive => chan = inflight)
    /\ [][n_recv' # n_recv => last_event' = Head(inflight)]_vars

\* an Input and a Tick are queued together, after the loop has received an event
C1_Witness ==
    /\ n_recv >= 1
    /\ Len(chan) >= 2
    /\ chan[1].kind # chan[2].kind

\* C2: every key the event thread reads is sent as one Input event (the send
\* fails only once the Receiver is gone, and then the thread panics), and
\* every event sent is received by the loop unless the loop has ended (by the
\* quit key or by a panic).
C2_InputNeverDropped ==
    /\ [](sched_pc # "panicked" => n_inputs_sent = n_keys_read)
    /\ \A n \in 1..MaxEvents :
          (n_sent >= n) ~> (n_recv >= n \/ main_pc \in {"done", "panicked"})

\* the loop has received an Input while a Tick was queued behind it
C2_Witness ==
    /\ last_event.kind = "Input"
    /\ n_inputs_sent = n_keys_read
    /\ \E i \in 1..Len(chan) : chan[i].kind = "Tick"

\* C3: between two consecutive Tick sends at least tick_rate has elapsed.
C3_TickSpacing ==
    \A i \in 1..(Len(tick_times) - 1) : tick_times[i + 1] - tick_times[i] >= TickRate

\* two Ticks were sent and two keystrokes between them
C3_Witness ==
    /\ Len(tick_times) = 2
    /\ Len(inflight) = 4
    /\ inflight[1].kind = "Tick"
    /\ inflight[2].kind = "Input"
    /\ inflight[3].kind = "Input"
    /\ inflight[4].kind = "Tick"

\* C4: in the loop the selected topic index is a valid index into the catalog,
\* and the lookup of the selected topic in render_topics never fails.
C4_SelectedTopicValid ==
    /\ main_pc \in {"draw", "recv"} => topic_list_state < Len(topic_list)
    /\ ~(main_pc = "panicked" /\ panic_at = "exists" /\ active_menu_item = "Topics")

\* C5: on the Topics tab, Down at the last index selects 0 and otherwise
\* index + 1; Up at index 0 selects the last index and otherwise index - 1
\* (so both leave a one-topic catalog's index at 0); the loop goes on.
C5_TopicSelectionWraps ==
    [][(n_recv' # n_recv /\ active_menu_item = "Topics" /\ last_event'.kind = "Input")
        => /\ last_event'.code = "Down" =>
                /\ main_pc' = "draw"
                /\ topic_list_state' = IF topic_list_state = Len(topic_list) - 1
                                       THEN 0 ELSE topic_list_state + 1
           /\ last_event'.code = "Up" =>
                /\ main_pc' = "draw"
                /\ topic_list_state' = IF topic_list_state = 0
                                       THEN Len(topic_list) - 1
                                       ELSE topic_list_state - 1
           /\ (last_event'.code \in {"Down", "Up"} /\ Len(topic_list) = 1) =>
                topic_list_state' = 0 /\ topic_list_state = 0]_vars

\* Down was dispatched on the Topics tab of a two-topic catalog and wrapped to 0
C5_Witness ==
    /\ last_event = Input("Down")
    /\ active_menu_item = "Topics"
    /\ Len(topic_list) = 2
    /\ topic_list_state = 0

\* C6: a consume is one poll and one commit, after which it is over: a session
\* never polls a second time.
C6_ExactlyOnePoll == polls <= 1

\* C7: the offset committed for the group never passes a message that was not
\* handed to the callback; a panic or a crash commits nothing; and a session
\* starts at the committed offset (the earliest when there is none), so what
\* was handed over and not committed is fetched again.
C7_CommitAfterProcessing ==
    /\ [](\A p \in Parts : committed[p] <= handed[p])
    /\ [][cons_pc' \in {"panicked", "crashed"} => committed' = committed]_vars
    /\ [][(cons_pc \in {"idle", "panicked", "crashed"} /\ cons_pc' = "poll")
            => \A p \in Parts : /\ fetch_pos'[p] <= handed[p]
                                /\ committed[p] # -1 => fetch_pos'[p] = committed[p]]_vars

\* a commit failed after the batch's messages were handed over: they are uncommitted
C7_Witness ==
    /\ cons_pc = "panicked"
    /\ cons_panic = "commit"
    /\ \E p \in Parts : handed[p] > StartOffset(committed[p])

\* C8: when the first consume of a session fails (poll, decode or commit), no
\* message of its batch was handed to the log.
C8_FailedConsumeAppendsNothing ==
    (cons_pc = "panicked" /\ polls <= 1) => delivered = <<>>

\* the broker calls the refresh unwrap()s
BrokerErrors == {"load_metadata_all", "get_offsets: load_metadata_all", "fetch_topic_offsets"}

\* C9: a failed broker call of the startup refresh does not end the process.
C9_FailedRefreshKeepsRunning == ~(panic_at \in BrokerErrors /\ main_pc = "panicked")

\* C10: the catalog is the whole catalog or nothing: main holds no catalog
\* other than the empty one and the complete one, and once the event thread
\* and the loop exist it holds the complete one.
C10_RefreshAllOrNothing ==
    /\ topic_list \in {<<>>, FullCatalog(cluster)}
    /\ sched_pc # "unspawned" => topic_list = FullCatalog(cluster)

\* the offset query of the second of two topics failed, one topic being collected
C10_Witness ==
    /\ main_pc = "panicked"
    /\ panic_at = "fetch_topic_offsets"
    /\ Len(cluster) = 2
    /\ Len(built) = 1

\* the refresh has returned its catalog to main
RefreshReturned == main_pc \in {"setup", "draw"}

\* C11: in the catalog a refresh returns, the partitions of every topic are
\* the broker's, in the broker's order; a partition whose id is in the topic's
\* offset answer carries that entry's offset, whatever the entry's place in
\* the answer, and a partition whose id is not in it carries offset 0; the
\* join itself never fails the refresh.
C11_OffsetsJoinedById ==
    /\ RefreshReturned =>
          /\ Len(topic_list) = Len(cluster)
          /\ \A i \in 1..Len(cluster) :
                /\ Len(topic_list[i].partitions) = Len(cluster[i].partitions)
                /\ \A j \in 1..Len(cluster[i].partitions) :
                      LET p == topic_list[i].partitions[j]
                          b == cluster[i].partitions[j]
                          os == cluster[i].offsets
                      IN /\ p.id = b.id
                         /\ \A k \in 1..Len(os) :
                               os[k].partition = b.id => p.offset = os[k].offset
                         /\ (\A k \in 1..Len(os) : os[k].partition # b.id) => p.offset = 0
    /\ (main_pc = "panicked" /\ sched_pc = "unspawned") => panic_at \in BrokerErrors

\* a refresh returned a topic of two partitions whose offset answer holds
\* partition 1 only, in its first place: partition 1 carries that offset and
\* partition 0 carries 0
C11_Witness ==
    /\ RefreshReturned
    /\ Len(cluster) = 1
    /\ Len(cluster[1].partitions) = 2
    /\ Len(cluster[1].offsets) = 1
    /\ cluster[1].offsets[1].partition = 1
    /\ topic_list[1].partitions[2].offset = cluster[1].offsets[1].offset
    /\ topic_list[1].partitions[1].offset = 0

\* in the catalog returned, a partition without a leader carries `label` as
\* its leader and is not available, and a partition with a leader carries
\* the leader's host
LeaderReportedAs(label) ==
    RefreshReturned =>
       /\ Len(topic_list) = Len(cluster)
       /\ \A i \in 1..Len(cluster) :
             /\ Len(topic_list[i].partitions) = Len(cluster[i].partitions)
             /\ \A j \in 1..Len(cluster[i].partitions) :
                   LET p == topic_list[i].partitions[j]
                       b == cluster[i].partitions[j]
                   IN IF b.leader = <<>>
                      THEN p.leader = label /\ p.available = FALSE
                      ELSE p.leader = b.leader[1]

C13_ConsumeReturns == commits >= 1 => cons_pc \notin {"poll", "messages"}

\* C14: a session of the group starts, for each partition, at the group's
\* committed offset, or at the earliest offset (0) when the group has
\* committed none; the first message it hands over is the one at that offset,
\* and no message it hands over lies before the committed offset.
C14_ResumeFromCommitted ==
    /\ [][(cons_pc \in {"idle", "panicked", "crashed"} /\ cons_pc' = "poll")
            => \A p \in Parts :
                  fetch_pos'[p] = IF committed[p] = -1 THEN 0 ELSE committed[p]]_vars
    /\ [][Len(delivered') > Len(delivered)
            => LET p == batch[ms_i].partition IN
               /\ msg_off >= committed[p]
               /\ delivered = <<>> =>
                     msg_off = IF committed[p] = -1 THEN 0 ELSE committed[p]]_vars

\* a session opened after a commit of one message has handed over its first
\* message, the one right after the committed one
C14_Witness ==
    /\ cons_pc = "messages"
    /\ commits = 0
    /\ Len(delivered) = 1
    /\ \E p \in Parts : committed[p] = 1 /\ msg_off = 2 /\ batch[ms_i].partition = p

\* C15: when the loop receives a Tick, the active tab, both selection indices
\* and the catalog stay as they are, the loop goes to its next draw, and no
\* broker call is made (no metadata load, no offset query, no refresh, no
\* consumer session).
C15_TickChangesNothing ==
    [][(n_recv' # n_recv /\ last_event'.kind = "Tick")
        => /\ active_menu_item' = active_menu_item
           /\ user_list_state' = user_list_state
           /\ topic_list_state' = topic_list_state
           /\ topic_list' = topic_list
           /\ main_pc' = "draw"
           /\ meta_loads' = meta_loads
           /\ offset_queries' = offset_queries
           /\ refreshes' = refreshes
           /\ cons_pc' = cons_pc]_vars

\* a Tick was received on the Topics tab, after another event
C15_Witness ==
    /\ last_event.kind = "Tick"
    /\ n_recv >= 2
    /\ active_menu_item = "Topics"
    /\ main_pc = "draw"

\* C16: the loop that receives the quit key disables raw mode and is left;
\* once left, it receives and dispatches nothing more, whatever is queued;
\* and the loop is left by `done` only in the step that receives the quit key.
C16_QuitIsTerminal ==
    /\ [][(n_recv' # n_recv /\ last_event' = Input("q"))
            => (main_pc' = "done" /\ raw_mode' = FALSE)]_vars
    /\ [][main_pc = "done"
            => /\ main_pc' = "done"
               /\ n_recv' = n_recv
               /\ last_event' = last_event
               /\ viewVars' = viewVars
               /\ raw_mode' = raw_mode]_vars
    /\ [][(main_pc # "done" /\ main_pc' = "done")
            => /\ main_pc = "recv"
               /\ n_recv' = n_recv + 1
               /\ last_event' = Input("q")]_vars

\* the loop was left by the quit key while events were queued behind it;
\* they were dropped with the Receiver
C16_Witness ==
    /\ main_pc = "done"
    /\ last_event = Input("q")
    /\ ~raw_mode
    /\ ~rx_alive
    /\ inflight # <<>>

\* C17: list_topic_details is called once, before the event thread and the
\* loop exist; from then on no step calls it or the broker again and the
\* catalog main holds never changes.
C17_RefreshedOnce ==
    /\ [](sched_pc # "unspawned" => refreshes = 1)
    /\ [](sched_pc = "unspawned" => main_pc \notin {"draw", "recv", "done"})
    /\ [][sched_pc # "unspawned"
            => /\ topic_list' = topic_list
               /\ refreshes' = refreshes
               /\ meta_loads' = meta_loads
               /\ offset_queries' = offset_queries]_vars

\* the loop has received a key and a Tick; the catalog holds two topics
C17_Witness ==
    /\ refreshes = 1
    /\ Len(topic_list) = 2
    /\ n_keys_read >= 1
    /\ tick_times # <<>>
    /\ n_recv >= 2
    /\ main_pc = "draw"

\* an Up or Down key received by the loop changes nothing but the selection
\* index of the list on the active tab (nothing on the Home tab), makes no
\* broker call, and on the Users tab performs the file I/O `users_io`
NavigationEffect(users_io) ==
       (n_recv' # n_recv /\ last_event'.kind = "Input" /\ last_event'.code \in {"Up", "Down"})
        => /\ main_pc' = "draw"
           /\ active_menu_item' = active_menu_item
           /\ topic_list' = topic_list
           /\ db' = db
           /\ meta_loads' = meta_loads
           /\ offset_queries' = offset_queries
           /\ refreshes' = refreshes
           /\ active_menu_item = "Topics" =>
                 (user_list_state' = user_list_state /\ dispatch_io' = "none")
           /\ active_menu_item = "Users" =>
                 (topic_list_state' = topic_list_state /\ dispatch_io' = users_io)
           /\ active_menu_item = "Home" =>
                 /\ user_list_state' = user_list_state
                 /\ topic_list_state' = topic_list_state
                 /\ dispatch_io' = "none"

\* C18 as stated: navigation changes only the active list's selection index
\* and performs no I/O on any tab.
C18_NavigationPure == [][NavigationEffect("none")]_vars

\* C18, amended: navigation changes only the active list's selection index
\* and makes no broker call; on the Topics and Home tabs it performs no I/O,
\* on the Users tab it reads the user file to learn the list's length.
C18_NavigationFrame == [][NavigationEffect("read_db")]_vars

\* Up was dispatched on the Users tab: the user file was read
C18_Witness ==
    /\ last_event = Input("Up")
    /\ active_menu_item = "Users"
    /\ dispatch_io = "read_db"
    /\ main_pc = "draw"

\* the configuration main() asks for is not to be had: no name was given, the
\* file cannot be found, read or parsed, or no entry has the name
ConfigFails ==
    \/ Len(args) < 2
    \/ config_file.state # "ok"
    \/ \A i \in 1..Len(config_file.entries) : config_file.entries[i].name # args[2]

\* the panics of main.rs:75 and config.rs:33-36
ConfigErrors == {"args: index out of bounds", "config: unwrap on None",
                 "Something went wrong reading the file", "JSON was not well-formatted"}

\* C19: when the configuration is not to be had, main goes from its first
\* statement to a panic and the process ends in failure, with no broker call
\* made, no event thread started, raw mode never enabled and the loop never
\* entered; otherwise the client's host is the broker of the first entry
\* that has the requested name.
C19_ConfigFailuresFatal ==
    /\ ConfigFails =>
          /\ main_pc \in {"config", "panicked"}
          /\ main_pc = "panicked" => panic_at \in ConfigErrors
          /\ ~proc_alive => main_pc = "panicked"
          /\ meta_loads = 0 /\ offset_queries = 0 /\ refreshes = 0
          /\ sched_pc = "unspawned" /\ ~rx_alive /\ ~raw_mode
    /\ (~ConfigFails /\ main_pc # "config") =>
          \E i \in 1..Len(config_file.entries) :
             /\ config_file.entries[i].name = args[2]
             /\ \A j \in 1..(i - 1) : config_file.entries[j].name # args[2]
             /\ kafka_hosts = <<config_file.entries[i].broker>>

\* the file holds two entries, none with the requested name: the process has
\* ended in the unwrap's panic
C19_Witness ==
    /\ ~proc_alive
    /\ main_pc = "panicked"
    /\ panic_at = "config: unwrap on None"
    /\ config_file.state = "ok"
    /\ Len(config_file.entries) = 2
    /\ meta_loads = 0

\* C20: every event::poll of the event thread waits for the time that remains
\* until the next Tick is due (zero only when one is due already), and the
\* thread never makes two zero-timeout polls in a row without sending a Tick
\* between them.
C20_NoBusySpin ==
    /\ sched_pc = "poll" =>
          timeout = IF poll_start - last_tick >= TickRate THEN 0
                    ELSE TickRate - (poll_start - last_tick)
    /\ zero_waits <= 1

\* C21: a refresh that returned the catalog of a cluster of N topics has
\* loaded the cluster metadata once and has made N latest-offset queries.
C21_OneLoadNQueries ==
    RefreshReturned => (meta_loads = 1 /\ offset_queries = Len(cluster))

\* the Ticks a run of Spec can send
MaxTicks == MaxTime \div TickRate

\* C22: while the Receiver exists, an iteration of the event thread that ends
\* when a full tick interval has elapsed since the last Tick has sent a Tick
\* as its last event, also when it sent an Input; an iteration sends at most
\* one Input and one Tick, the Input first; and once the interval has
\* elapsed the thread does send the Tick, whatever keys arrive.
C22_TicksNotStarved ==
    /\ [][(sched_pc \notin {"top", "unspawned"} /\ sched_pc' = "top" /\ rx_alive
             /\ now - last_tick >= TickRate)
            => (iter_events' # <<>> /\ iter_events'[Len(iter_events')] = "Tick")]_vars
    /\ [](iter_events \in {<<>>, <<"Input">>, <<"Tick">>, <<"Input", "Tick">>})
    /\ \A n \in 0..MaxTicks :
          (/\ rx_alive
           /\ sched_pc \in {"top", "poll", "read", "check", "send_tick"}
           /\ now - last_tick >= TickRate
           /\ Len(tick_times) = n)
          ~> (Len(tick_times) > n \/ ~rx_alive)

\* an iteration has sent an Input and then the Tick that was due, after an
\* earlier Tick
C22_Witness ==
    /\ iter_events = <<"Input", "Tick">>
    /\ Len(tick_times) = 2
    /\ rx_alive

=============================================================================
